---- MODULE Spec2Model ----
(***************************************************************************)
(* Model of app/main.py of the ITY appointment aggregator: the query       *)
(* interpreter (conversational_to_search), the temporal phrase parser      *)
(* (parse_when_text), the scoring function (compute_score) and the         *)
(* aggregation pipeline (search_haircuts_internal).                        *)
(*                                                                         *)
(* Conventions.                                                            *)
(*   - Optional[T] is a set: None is {} and a present value v is {v}.      *)
(*   - A Python str is a sequence of one-character strings.                *)
(*   - Instants are whole hours since an epoch at midnight.                *)
(*   - Scores are in units of 0.0001 (the resolution of round(.., 4)).     *)
(*   - Coordinates are in units of 0.001 degree.                           *)
(***************************************************************************)
EXTENDS Integers, Sequences, FiniteSets, TLC

VARIABLES
    query,        \* argument of conversational_to_search
    interp,       \* its outcome: pending, returned (a SearchRequest) or raised
    slot,         \* AppointmentSlot argument of compute_score
    scoreSearch,  \* SearchRequest argument of compute_score
    clock,        \* datetime.utcnow() during compute_score
    terms,        \* locals and return value of compute_score
    pc,           \* position of search_haircuts_internal
    search,       \* its SearchRequest
    now,          \* datetime.utcnow() during the search
    parsed_when,  \* parse_when_text(search.when)
    square,       \* connector_square_haircuts task: pending or its slots
    vagaro,       \* connector_vagaro_haircuts task: pending or its slots
    result        \* the returned list of NormalizedSlot

vars == <<query, interp, slot, scoreSearch, clock, terms,
          pc, search, now, parsed_when, square, vagaro, result>>

interpVars == <<query, interp>>
scoreVars == <<slot, scoreSearch, clock, terms>>
pipeVars == <<pc, search, now, parsed_when, square, vagaro, result>>

(***************************************************************************)
(* Optional values                                                         *)
(***************************************************************************)
None == {}
Some(v) == {v}
IsNone(x) == x = {}
Val(x) == CHOOSE v \in x : TRUE

Max(a, b) == IF a >= b THEN a ELSE b
Abs(a) == IF a >= 0 THEN a ELSE -a

(***************************************************************************)
(* Python str operations used by the query interpreter                     *)
(***************************************************************************)
Whitespace == {" ", "\t"}
AsciiDigits == <<"0", "1", "2", "3", "4", "5", "6", "7", "8", "9">>
\* str.isdigit() also accepts digits that int() rejects, e.g. SUPERSCRIPT TWO,
\* written "^2" here.
SuperscriptDigits == {"^2"}

DigitValue(c) == (CHOOSE i \in 1..10 : AsciiDigits[i] = c) - 1
IsAsciiDigit(c) == \E i \in 1..10 : AsciiDigits[i] = c

\* str.lower()
UpperChars == <<"A", "B", "C", "F", "M", "T", "W">>
LowerChars == <<"a", "b", "c", "f", "m", "t", "w">>
LowerChar(c) ==
    IF \E i \in 1..Len(UpperChars) : UpperChars[i] = c
    THEN LowerChars[CHOOSE i \in 1..Len(UpperChars) : UpperChars[i] = c]
    ELSE c
Lower(s) == [i \in 1..Len(s) |-> LowerChar(s[i])]

\* s.replace(c, "")
Remove(s, c) == SelectSeq(s, LAMBDA x : x # c)

\* s.split(): the maximal runs of non-whitespace characters
RECURSIVE SplitAcc(_, _, _)
SplitAcc(rest, cur, acc) ==
    IF rest = <<>>
    THEN IF cur = <<>> THEN acc ELSE Append(acc, cur)
    ELSE IF Head(rest) \in Whitespace
         THEN SplitAcc(Tail(rest), <<>>, IF cur = <<>> THEN acc ELSE Append(acc, cur))
         ELSE SplitAcc(Tail(rest), Append(cur, Head(rest)), acc)
Split(s) == SplitAcc(s, <<>>, <<>>)

\* token.isdigit()
IsDigit(t) ==
    /\ t # <<>>
    /\ \A i \in 1..Len(t) : IsAsciiDigit(t[i]) \/ t[i] \in SuperscriptDigits

\* int(token) raises ValueError on a digit that is not a decimal digit
IntRaises(t) == \E i \in 1..Len(t) : ~IsAsciiDigit(t[i])
\* Python integers are unbounded and the model checker's are not: a value
\* is kept exact up to a million and held there beyond (the code only
\* compares it with 200 and keeps it when it is smaller).
Capped(n) == IF n > 1000000 THEN 1000000 ELSE n
RECURSIVE IntOf(_)
IntOf(t) ==
    IF t = <<>> THEN 0
    ELSE Capped(10 * IntOf(SubSeq(t, 1, Len(t) - 1)) + DigitValue(t[Len(t)]))

\* sub in s
Contains(s, sub) ==
    \E i \in 0..(Len(s) - Len(sub)) : SubSeq(s, i + 1, i + Len(sub)) = sub

\* s.split(sub, 1)[1]: what follows the first occurrence of sub
AfterFirst(s, sub) ==
    LET i == CHOOSE k \in 0..(Len(s) - Len(sub)) :
                 /\ SubSeq(s, k + 1, k + Len(sub)) = sub
                 /\ \A j \in 0..(k - 1) : SubSeq(s, j + 1, j + Len(sub)) # sub
    IN  SubSeq(s, i + Len(sub) + 1, Len(s))

\* t.strip(chars): Python strips the characters from both ends
RECURSIVE LStrip(_, _)
LStrip(t, chars) ==
    IF t # <<>> /\ Head(t) \in chars THEN LStrip(Tail(t), chars) ELSE t
RECURSIVE RStrip(_, _)
RStrip(t, chars) ==
    IF t # <<>> /\ t[Len(t)] \in chars
    THEN RStrip(SubSeq(t, 1, Len(t) - 1), chars) ELSE t
Strip(t, chars) == RStrip(LStrip(t, chars), chars)

(***************************************************************************)
(* Literals of conversational_to_search                                    *)
(***************************************************************************)
StrFade == <<"f", "a", "d", "e">>
StrWomen == <<"w", "o", "m", "e", "n">>
StrMen == <<"m", "e", "n">>
StrToday == <<"t", "o", "d", "a", "y">>
StrAsap == <<"a", "s", "a", "p">>
StrTomorrow == <<"t", "o", "m", "o", "r", "r", "o", "w">>
StrWith == <<"w", "i", "t", "h", " ">>
StrWomensCut == <<"W", "o", "m", "e", "n", "'", "s", " ", "C", "u", "t">>
StrMensCut == <<"M", "e", "n", "'", "s", " ", "C", "u", "t">>
StylistPunct == {".", ",", "!"}
BudgetCeiling == 200
DefaultLimit == 25

\* SearchRequest(...): the fields and their defaults
SearchRequest(q, budget, service, when, stylist, lat, lng) ==
    [query |-> q, when |-> when, budget_max |-> budget,
     distance_miles_max |-> None, service |-> service, stylist |-> stylist,
     lat |-> lat, lng |-> lng, limit |-> DefaultLimit]
DefaultSearchRequest == SearchRequest(None, None, None, None, None, None, None)

\* Mutant of BudgetLoop: the first qualifying token wins
RECURSIVE BudgetLoopFirstWins(_, _)
BudgetLoopFirstWins(tokens, budget) ==
    IF tokens = <<>> THEN [raised |-> FALSE, budget |-> budget]
    ELSE LET token == Head(tokens) IN
         IF IsDigit(token)
         THEN IF IntRaises(token)
              THEN [raised |-> TRUE, budget |-> budget]
              ELSE BudgetLoopFirstWins(Tail(tokens),
                              IF IntOf(token) < BudgetCeiling /\ IsNone(budget)
                              THEN Some(IntOf(token)) ELSE budget)
         ELSE BudgetLoopFirstWins(Tail(tokens), budget)

\* The budget loop: later qualifying tokens overwrite earlier ones; the
\* result is "raised" as soon as int(token) raises.
RECURSIVE BudgetLoop(_, _)
BudgetLoop(tokens, budget) ==
    IF tokens = <<>> THEN [raised |-> FALSE, budget |-> budget]
    ELSE LET token == Head(tokens) IN
         IF IsDigit(token)
         THEN IF IntRaises(token)
              THEN [raised |-> TRUE, budget |-> budget]
              ELSE BudgetLoop(Tail(tokens),
                              IF IntOf(token) < BudgetCeiling
                              THEN Some(IntOf(token)) ELSE budget)
         ELSE BudgetLoop(Tail(tokens), budget)

\* Mutant of ExtractService: "men" is tested before "women"
ExtractServiceMenFirst(q) ==
    IF Contains(q, StrFade) THEN Some(StrFade)
    ELSE IF Contains(q, StrMen) THEN Some(StrMensCut)
    ELSE IF Contains(q, StrWomen) THEN Some(StrWomensCut)
    ELSE None

ExtractService(q) ==
    IF Contains(q, StrFade) THEN Some(StrFade)
    ELSE IF Contains(q, StrWomen) THEN Some(StrWomensCut)
    ELSE IF Contains(q, StrMen) THEN Some(StrMensCut)
    ELSE None

ExtractWhen(q) ==
    IF Contains(q, StrToday) \/ Contains(q, StrAsap) THEN Some(StrToday)
    ELSE IF Contains(q, StrTomorrow) THEN Some(StrTomorrow)
    ELSE None

\* q.split("with ", 1)[1].split(): indexing it with [0] raises IndexError
\* when it is empty
StylistTokens(q) == Split(AfterFirst(q, StrWith))
\* Mutant of StripStylist: only the end of the token is stripped
StripStylistTrailing(token) == RStrip(token, StylistPunct)
StripStylist(token) == Strip(token, StylistPunct)

conversational_to_search(qry) ==
    IF IsNone(qry) \/ Val(qry) = <<>>
    THEN [outcome |-> "returned", value |-> DefaultSearchRequest]
    ELSE
    LET q == Lower(Val(qry))
        loop == BudgetLoop(Split(Remove(Remove(q, "$"), ",")), None)
    IN  IF loop.raised THEN [outcome |-> "raised", error |-> "ValueError"]
        ELSE IF Contains(q, StrWith) /\ StylistTokens(q) = <<>>
        THEN [outcome |-> "raised", error |-> "IndexError"]
        ELSE [outcome |-> "returned",
              value |-> SearchRequest(qry, loop.budget, ExtractService(q),
                            ExtractWhen(q),
                            IF Contains(q, StrWith)
                            THEN Some(StripStylist(StylistTokens(q)[1]))
                            ELSE None,
                            None, None)]

(***************************************************************************)
(* parse_when_text                                                         *)
(***************************************************************************)
HoursPerDay == 24
TomorrowHour == 9
StrNow == <<"n", "o", "w">>
StrFivePm == <<"5", "p", "m">>

\* dateutil's parser (an external library), on the phrases the model feeds
\* it: "5pm" is today at 17:00 (unspecified components default to the
\* current instant); anything else here makes it raise.
DtParse(text, t) ==
    IF text = StrFivePm
    THEN [raised |-> FALSE, value |-> (t \div HoursPerDay) * HoursPerDay + 17]
    ELSE [raised |-> TRUE, value |-> 0]

parse_when_text(when_text, t) ==
    IF IsNone(when_text) \/ Val(when_text) = <<>> THEN None
    ELSE LET text == Strip(Lower(Val(when_text)), Whitespace) IN
         IF text \in {StrNow, StrAsap, StrToday} THEN Some(t)
         ELSE IF text \in {StrTomorrow}
         THEN Some((t \div HoursPerDay) * HoursPerDay + TomorrowHour + HoursPerDay)
         ELSE LET parsed == DtParse(Val(when_text), t) IN
              IF parsed.raised THEN None ELSE Some(parsed.value)

(***************************************************************************)
(* compute_score                                                           *)
(***************************************************************************)
ScoreUnit == 10000        \* 1.0 in units of 0.0001
EarlyBonusUnits == 2000   \* 0.2
EarlyWindow == 24         \* timedelta(hours=24)
ProximityPerMilliDegree == 100  \* (1 milli-degree / 0.1 degree) in units of 0.0001

\* rapidfuzz's fuzz.partial_ratio (an external library) on the lower-cased
\* service names of the model: 100 when the needle occurs in the haystack,
\* 0 when the two share no character.
PartialRatio(a, b) == IF Contains(b, a) THEN 100 ELSE 0

PriceScore(s) == Max(0, ScoreUnit - s.price_cents)

\* Mutant of EarlyBonus: a slot starting exactly 24 hours ahead gets the bonus
EarlyBonusInclusive(s, t) ==
    IF s.start_time <= t + EarlyWindow THEN EarlyBonusUnits ELSE 0

EarlyBonus(s, t) ==
    IF s.start_time < t + EarlyWindow THEN EarlyBonusUnits ELSE 0

\* "if search.service": None and the empty string are both falsy
ServiceMatch(s, srch) ==
    IF ~IsNone(srch.service) /\ Val(srch.service) # <<>>
    THEN PartialRatio(Lower(Val(srch.service)), Lower(s.service_name)) * 100
    ELSE 0

StylistMatch(s, srch) ==
    IF /\ ~IsNone(srch.stylist) /\ Val(srch.stylist) # <<>>
       /\ ~IsNone(s.stylist_name) /\ Val(s.stylist_name) # <<>>
       /\ Contains(Lower(Val(s.stylist_name)), Lower(Val(srch.stylist)))
    THEN ScoreUnit ELSE 0

\* "slot.latitude and slot.longitude" is a truthiness test: a coordinate of
\* 0.0 is falsy, like None
Truthy(coord) == ~IsNone(coord) /\ Val(coord) # 0

Proximity(s, srch) ==
    IF ~IsNone(srch.lat) /\ ~IsNone(srch.lng) /\ Truthy(s.latitude) /\ Truthy(s.longitude)
    THEN Max(0, ScoreUnit - ProximityPerMilliDegree *
                (Abs(Val(s.latitude) - Val(srch.lat)) + Abs(Val(s.longitude) - Val(srch.lng))))
    ELSE 0

ScoreTerms(s, srch, t) ==
    [outcome |-> "returned",
     price_score |-> PriceScore(s),
     early_bonus |-> EarlyBonus(s, t),
     service_match |-> ServiceMatch(s, srch),
     stylist_match |-> StylistMatch(s, srch),
     proximity |-> Proximity(s, srch)]

\* price_score + early_bonus + 0.5*service_match + 0.3*stylist_match + 0.5*proximity
compute_score(s, srch, t) ==
    LET x == ScoreTerms(s, srch, t) IN
    x.price_score + x.early_bonus + (5 * x.service_match) \div 10
        + (3 * x.stylist_match) \div 10 + (5 * x.proximity) \div 10

(***************************************************************************)
(* The queries fed to the interpreter: up to MaxFrags fragments            *)
(***************************************************************************)
MaxFrags == 3
Fragments ==
    { StrFade, <<"w", "o">>, StrMen, StrWith, <<"W", "i", "t", "h">>,
      <<" ">>, <<"\t">>, <<"$">>, <<",">>, <<".">>,
      <<"1", "5">>, <<"0">>, <<"2", "0", "0">>, <<"A", "l">>, <<"^2">> }

RECURSIVE Flatten(_)
Flatten(fs) == IF fs = <<>> THEN <<>> ELSE Head(fs) \o Flatten(Tail(fs))

Queries ==
    {None} \cup
    { Some(Flatten(fs)) : fs \in UNION { [1..n -> Fragments] : n \in 0..MaxFrags } }

IdleInterp == query = None /\ interp = [outcome |-> "pending"]
IdleScore ==
    /\ slot = None /\ scoreSearch = None /\ clock = 0
    /\ terms = [outcome |-> "pending"]
IdlePipe ==
    /\ pc = "idle" /\ search = None /\ now = 0 /\ parsed_when = None
    /\ square = None /\ vagaro = None /\ result = <<>>

InitInterp ==
    /\ query \in Queries
    /\ interp = [outcome |-> "pending"]
    /\ IdleScore /\ IdlePipe

Interpret ==
    /\ interp.outcome = "pending"
    /\ interp' = conversational_to_search(query)
    /\ UNCHANGED <<query, scoreVars, pipeVars>>

NextInterp == Interpret

SpecInterp == InitInterp /\ [][NextInterp]_vars

(***************************************************************************)
(* compute_score applied to one slot and one request                       *)
(***************************************************************************)
StrFadeBeard == <<"F", "a", "d", "e", " ", "+", " ", "B", "e", "a", "r", "d">>
StrTrim == <<"T", "r", "i", "m">>
StrAlex == <<"A", "l", "e", "x">>
StrAl == <<"a", "l">>

\* AppointmentSlot: the fields the pipeline reads (location, duration,
\* currency and URL are carried through unread)
AppointmentSlot(provider, id, service, stylist, start, price, lat, lng) ==
    [provider |-> provider, provider_internal_id |-> id,
     service_name |-> service, stylist_name |-> stylist,
     start_time |-> start, price_cents |-> price,
     latitude |-> lat, longitude |-> lng]

MakeSearch(when, budget, service, stylist, lat, lng, limit) ==
    [query |-> None, when |-> when, budget_max |-> budget,
     distance_miles_max |-> None, service |-> service, stylist |-> stylist,
     lat |-> lat, lng |-> lng, limit |-> limit]

ScoreClock == {10}
ScoreSlots ==
    { AppointmentSlot("square", 0, sv, st, t, p, la, lo) :
        sv \in {StrFadeBeard, StrTrim}, st \in {None, Some(StrAlex)},
        t \in {5, 12, 34, 40}, p \in {4000, 12000},
        la \in {None, Some(0), Some(20)}, lo \in {None, Some(0), Some(30)} }
ScoreSearches ==
    { MakeSearch(None, None, sv, st, la, lo, DefaultLimit) :
        sv \in {None, Some(<<>>), Some(StrFade)}, st \in {None, Some(StrAl)},
        la \in {None, Some(0), Some(20)}, lo \in {None, Some(30)} }

InitScore ==
    /\ slot \in { Some(s) : s \in ScoreSlots }
    /\ scoreSearch \in { Some(s) : s \in ScoreSearches }
    /\ clock \in ScoreClock
    /\ terms = [outcome |-> "pending"]
    /\ IdleInterp /\ IdlePipe

Score ==
    /\ terms.outcome = "pending"
    /\ terms' = [ScoreTerms(Val(slot), Val(scoreSearch), clock) EXCEPT
                   !.outcome = "returned"] @@
                 [score |-> compute_score(Val(slot), Val(scoreSearch), clock)]
    /\ UNCHANGED <<slot, scoreSearch, clock, interpVars, pipeVars>>

NextScore == Score

SpecScore == InitScore /\ [][NextScore]_vars

(***************************************************************************)
(* search_haircuts_internal                                                *)
(***************************************************************************)
\* Mutant of Keeps: the budget test is >= (a slot priced exactly at the
\* budget is dropped)
KeepsBelowBudget(s, srch, bound) ==
    /\ ~(~IsNone(srch.budget_max) /\ s.price_cents >= Val(srch.budget_max) * 100)
    /\ ~(~IsNone(bound) /\ s.start_time < Val(bound))

\* The hard filter: "continue" on either test drops the slot
Keeps(s, srch, bound) ==
    /\ ~(~IsNone(srch.budget_max) /\ s.price_cents > Val(srch.budget_max) * 100)
    /\ ~(~IsNone(bound) /\ s.start_time < Val(bound))

Filter(raw, srch, bound) == SelectSeq(raw, LAMBDA s : Keeps(s, srch, bound))

NormalizedSlot(s, srch, t) ==
    [id |-> <<s.provider, s.provider_internal_id>>,
     provider |-> s.provider,
     service_name |-> s.service_name,
     stylist_name |-> s.stylist_name,
     start_time |-> s.start_time,
     price_cents |-> s.price_cents,
     latitude |-> s.latitude,
     longitude |-> s.longitude,
     score |-> compute_score(s, srch, t)]

normalize_slots(slots, srch, t) ==
    [i \in 1..Len(slots) |-> NormalizedSlot(slots[i], srch, t)]

\* Mutant of KeyLess: the price tie-break is left out of the key
KeyLessNoPrice(a, b) ==
    \/ a.score > b.score
    \/ a.score = b.score /\ a.start_time < b.start_time

\* Mutant of KeyLess: the start-time tie-break is left out of the key
KeyLessNoStart(a, b) ==
    \/ a.score > b.score
    \/ a.score = b.score /\ a.price_cents < b.price_cents

\* key=lambda x: (-x.score, x.price_cents, x.start_time), compared as tuples
KeyLess(a, b) ==
    \/ a.score > b.score
    \/ a.score = b.score /\ a.price_cents < b.price_cents
    \/ a.score = b.score /\ a.price_cents = b.price_cents /\ a.start_time < b.start_time

\* list.sort is stable: x goes before the first element whose key is greater
RECURSIVE Insert(_, _)
Insert(sorted, x) ==
    IF sorted = <<>> THEN <<x>>
    ELSE IF KeyLess(x, Head(sorted)) THEN <<x>> \o sorted
    ELSE <<Head(sorted)>> \o Insert(Tail(sorted), x)
RECURSIVE Sort(_)
Sort(xs) ==
    IF xs = <<>> THEN <<>>
    ELSE Insert(Sort(SubSeq(xs, 1, Len(xs) - 1)), xs[Len(xs)])

\* xs[:limit]: a negative limit counts from the end
Slice(xs, limit) ==
    IF limit >= 0
    THEN SubSeq(xs, 1, IF limit < Len(xs) THEN limit ELSE Len(xs))
    ELSE SubSeq(xs, 1, Len(xs) + limit)

\* filter, normalize, sort, truncate
Rank(raw, srch, bound, t) ==
    Slice(Sort(normalize_slots(Filter(raw, srch, bound), srch, t)), srch.limit)

MaxSlots == 3
PipeClock == {10}
\* Both mock connectors draw prices around $20..$50; Vagaro's start times
\* begin an hour later and range further ahead than Square's.
SquareData == [price_cents : {2000, 4000}, start_time : {12, 33}]
VagaroData == [price_cents : {2000, 4000}, start_time : {33, 40}]
Requests ==
    { MakeSearch(w, b, None, None, None, None, l) :
        w \in {None, Some(<<"T", "o", "m", "o", "r", "r", "o", "w", " ">>),
               Some(StrFivePm), Some(<<"z", "z", "z">>)},
        b \in {None, Some(0), Some(20)},
        l \in {-1, 0, 1, DefaultLimit} }

\* What one connector returns: its slots carry its provider name and the
\* index-derived internal ids
Group(provider, data) ==
    [i \in 1..Len(data) |->
        AppointmentSlot(provider, i - 1, StrTrim, None,
                        data[i].start_time, data[i].price_cents, None, None)]
Returned(task) == IF IsNone(task) THEN <<>> ELSE Val(task)
Groups(data, room) == UNION { [1..n -> data] : n \in 0..room }

Init ==
    /\ IdlePipe /\ IdleInterp /\ IdleScore

\* entry: parse_when_text, then both connector tasks are created
StartSearch ==
    /\ pc = "idle"
    /\ \E r \in Requests, t \in PipeClock :
        /\ search' = Some(r)
        /\ now' = t
        /\ parsed_when' = parse_when_text(r.when, t)
    /\ pc' = "gather"
    /\ UNCHANGED <<square, vagaro, result, interpVars, scoreVars>>

SquareReturns ==
    /\ pc = "gather" /\ IsNone(square)
    /\ \E data \in Groups(SquareData, MaxSlots - Len(Returned(vagaro))) :
        square' = Some(Group("square", data))
    /\ UNCHANGED <<pc, search, now, parsed_when, vagaro, result, interpVars, scoreVars>>

VagaroReturns ==
    /\ pc = "gather" /\ IsNone(vagaro)
    /\ \E data \in Groups(VagaroData, MaxSlots - Len(Returned(square))) :
        vagaro' = Some(Group("vagaro", data))
    /\ UNCHANGED <<pc, search, now, parsed_when, square, result, interpVars, scoreVars>>

\* asyncio.gather returns the groups in task order, whichever finished first
RawResults == Returned(square) \o Returned(vagaro)

Finish ==
    /\ pc = "gather" /\ ~IsNone(square) /\ ~IsNone(vagaro)
    /\ result' = Rank(RawResults, Val(search), parsed_when, now)
    /\ pc' = "done"
    /\ UNCHANGED <<search, now, parsed_when, square, vagaro, interpVars, scoreVars>>

Next == StartSearch \/ SquareReturns \/ VagaroReturns \/ Finish

Spec == Init /\ [][Next]_vars

(***************************************************************************)
(* Properties of the aggregation pipeline (specification Spec)             *)
(***************************************************************************)
Done == pc = "done"
Limit == Val(search).limit

\* C1: the returned sequence is ordered, for each adjacent pair (a, b), by
\* a.score >= b.score, then a.price_cents <= b.price_cents among equal
\* scores, then a.start_time <= b.start_time among equal score and price.
C1_ResultOrdered ==
    Done =>
        \A i \in 1..(Len(result) - 1) :
            LET a == result[i]
                b == result[i + 1]
            IN  /\ a.score >= b.score
                /\ a.score = b.score => a.price_cents <= b.price_cents
                /\ (a.score = b.score /\ a.price_cents = b.price_cents)
                       => a.start_time <= b.start_time

\* A result of three slots with one score, where the price decides one
\* adjacent pair and the start time the other.
C1_Witness ==
    /\ Done /\ Len(result) = 3
    /\ result[1].score = result[2].score /\ result[2].score = result[3].score
    /\ result[1].price_cents < result[2].price_cents
    /\ result[2].price_cents = result[3].price_cents
    /\ result[2].start_time < result[3].start_time

\* C2: whatever integer request.limit holds, the result has length <=
\* request.limit; for request.limit <= 0 that is read as the claim spells it
\* out: the result is empty.
C2_LengthWithinLimit ==
    Done => /\ Limit > 0 => Len(result) <= Limit
            /\ Limit <= 0 => result = <<>>

\* The raw slots that pass both checks of the filter, stated from the claim:
\* price in dollars within the budget when one is set, start not before the
\* lower bound when one was resolved.
PassesChecks(s) ==
    /\ IsNone(Val(search).budget_max) \/ s.price_cents <= 100 * Val(Val(search).budget_max)
    /\ IsNone(parsed_when) \/ s.start_time >= Val(parsed_when)
RawIds(P(_)) ==
    { <<RawResults[i].provider, RawResults[i].provider_internal_id>> :
        i \in { j \in 1..Len(RawResults) : P(RawResults[j]) } }
ResultIds == { result[i].id : i \in 1..Len(result) }

\* C3: a raw slot is kept iff it passes the budget check and the time check:
\* every returned slot passes both, every returned slot is a raw slot that
\* passes both, and a raw slot that passes both is absent only when the
\* limit truncates the list.
C3_FilterExact ==
    Done =>
        /\ \A i \in 1..Len(result) : PassesChecks(result[i])
        /\ ResultIds \subseteq RawIds(PassesChecks)
        /\ Cardinality(ResultIds) = Len(result)
        /\ Limit >= Cardinality(RawIds(PassesChecks)) => ResultIds = RawIds(PassesChecks)

\* A search with a budget and a resolved lower bound in which one slot was
\* dropped for its price, one for its start time, and a slot priced exactly
\* at the budget was returned.
C3_Witness ==
    /\ Done
    /\ ~IsNone(Val(search).budget_max) /\ ~IsNone(parsed_when)
    /\ \E i \in 1..Len(RawResults) :
          /\ RawResults[i].price_cents > 100 * Val(Val(search).budget_max)
          /\ RawResults[i].start_time >= Val(parsed_when)
    /\ \E i \in 1..Len(RawResults) :
          /\ RawResults[i].price_cents <= 100 * Val(Val(search).budget_max)
          /\ RawResults[i].start_time < Val(parsed_when)
    /\ \E i \in 1..Len(result) :
          result[i].price_cents = 100 * Val(Val(search).budget_max)

\* Every order of the candidate list
RECURSIVE IndexOrders(_)
IndexOrders(S) ==
    IF S = {} THEN {<<>>}
    ELSE UNION { { <<i>> \o p : p \in IndexOrders(S \ {i}) } : i \in S }
OrdersUpTo == [n \in 0..(MaxSlots + 1) |-> IndexOrders(1..n)]
Perms(xs) == { [i \in 1..Len(xs) |-> xs[f[i]]] : f \in OrdersUpTo[Len(xs)] }
RankOf(raw) == Rank(raw, Val(search), parsed_when, now)
Keys(xs) == [i \in 1..Len(xs) |-> <<xs[i].score, xs[i].price_cents, xs[i].start_time>>]

\* C8 as claimed: the returned sequence is the same for every permutation of
\* the candidate list, ties on all three sort keys included.
C8_OrderIndependent ==
    Done => \A p \in Perms(RawResults) : RankOf(p) = result

\* C8 as amended: the sequence of (score, price_cents, start_time) triples of
\* the returned list is the same for every permutation of the candidate list;
\* which of the slots that tie on all three keys are returned, and in what
\* order, follows the order of the candidate list.
C8_KeysOrderIndependent ==
    Done => \A p \in Perms(RawResults) : Keys(RankOf(p)) = Keys(result)

\* A truncated result for which another order of the candidates returns
\* other slots.
C8_Witness ==
    /\ Done /\ Len(result) >= 1 /\ Len(result) < Len(RawResults)
    /\ \E p \in Perms(RawResults) : RankOf(p) # result

(***************************************************************************)
(* Properties of the query interpreter (specification SpecInterp)          *)
(***************************************************************************)
Interpreted == interp.outcome = "returned"
\* The lower-cased query text ("" when the query is absent)
Q == IF IsNone(query) THEN <<>> ELSE Lower(Val(query))

\* C4: conversational_to_search is total: whatever the input string, the
\* call returns a SearchRequest and never raises.
C4_NeverRaises == interp.outcome # "raised"

CleanTokens == Split(Remove(Remove(Q, "$"), ","))
AllDecimal(t) ==
    /\ t # <<>>
    /\ \A i \in 1..Len(t) : t[i] \in {"0", "1", "2", "3", "4", "5", "6", "7", "8", "9"}
Qualifying ==
    { i \in 1..Len(CleanTokens) :
        AllDecimal(CleanTokens[i]) /\ IntOf(CleanTokens[i]) < 200 }
LastOf(S) == CHOOSE i \in S : \A j \in S : j <= i
FirstOf(S) == CHOOSE i \in S : \A j \in S : i <= j

\* C5: budget_max is the value of the last whitespace-delimited token (of the
\* lower-cased query without '$' and ',') that is all digits and < 200;
\* other tokens never change it, and it is unset when no token qualifies.
C5_BudgetIsLastQualifying ==
    Interpreted =>
        interp.value.budget_max =
            IF Qualifying = {} THEN None
            ELSE Some(IntOf(CleanTokens[LastOf(Qualifying)]))

\* Two qualifying tokens of different value: the later one is the budget.
C5_Witness ==
    /\ Interpreted /\ Cardinality(Qualifying) >= 2
    /\ IntOf(CleanTokens[FirstOf(Qualifying)]) # IntOf(CleanTokens[LastOf(Qualifying)])
    /\ interp.value.budget_max = Some(IntOf(CleanTokens[LastOf(Qualifying)]))

\* C6: the service follows the priority "fade", then "women", then "men",
\* else unset; lat and lng are unset and limit is the default 25.
C6_ServicePriority ==
    Interpreted =>
        /\ Contains(Q, StrFade) => interp.value.service = Some(StrFade)
        /\ (~Contains(Q, StrFade) /\ Contains(Q, StrWomen))
               => interp.value.service = Some(StrWomensCut)
        /\ (~Contains(Q, StrFade) /\ ~Contains(Q, StrWomen) /\ Contains(Q, StrMen))
               => interp.value.service = Some(StrMensCut)
        /\ (~Contains(Q, StrFade) /\ ~Contains(Q, StrWomen) /\ ~Contains(Q, StrMen))
               => interp.value.service = None
        /\ interp.value.lat = None /\ interp.value.lng = None
        /\ interp.value.limit = 25

\* A query naming "women" (hence "men") without "fade": Women's Cut.
C6_Witness ==
    /\ Interpreted /\ Contains(Q, StrWomen) /\ ~Contains(Q, StrFade)
    /\ interp.value.service = Some(StrWomensCut)

HasWith == Contains(Q, StrWith)
\* The first whitespace-delimited token after the first "with "
FirstToken == Split(AfterFirst(Q, StrWith))[1]
\* s is t without its leading and trailing run of characters of chars
IsCore(s, t, chars) ==
    \E i \in 0..Len(t) : \E j \in i..Len(t) :
        /\ s = SubSeq(t, i + 1, j)
        /\ \A k \in 1..i : t[k] \in chars
        /\ \A k \in (j + 1)..Len(t) : t[k] \in chars
        /\ s = <<>> \/ (s[1] \notin chars /\ s[Len(s)] \notin chars)
\* s is t without its trailing run of characters of chars
IsTrailingStripped(s, t, chars) ==
    \E j \in 0..Len(t) :
        /\ s = SubSeq(t, 1, j)
        /\ \A k \in (j + 1)..Len(t) : t[k] \in chars
        /\ s = <<>> \/ s[Len(s)] \notin chars

\* C7 as claimed: with "with " in the query the stylist is the first token
\* after it with '.', ',' and '!' removed from its end only; without "with "
\* the stylist is unset.
C7_StylistTrailingStripped ==
    Interpreted =>
        /\ HasWith => /\ ~IsNone(interp.value.stylist)
                      /\ IsTrailingStripped(Val(interp.value.stylist), FirstToken,
                                            {".", ",", "!"})
        /\ ~HasWith => interp.value.stylist = None

\* C7 as amended: the characters are removed from both ends of the token.
C7_StylistStrippedBothEnds ==
    Interpreted =>
        /\ HasWith => /\ ~IsNone(interp.value.stylist)
                      /\ IsCore(Val(interp.value.stylist), FirstToken, {".", ",", "!"})
        /\ ~HasWith => interp.value.stylist = None

\* A token that starts with punctuation and does not consist of it.
C7_Witness ==
    /\ Interpreted /\ HasWith
    /\ FirstToken[1] \in {".", ",", "!"}
    /\ interp.value.stylist # None /\ interp.value.stylist # Some(<<>>)

(***************************************************************************)
(* Properties of the scoring function (specification SpecScore)            *)
(***************************************************************************)
Scored == terms.outcome = "returned"
AllCoordinatesPresent ==
    /\ ~IsNone(Val(scoreSearch).lat) /\ ~IsNone(Val(scoreSearch).lng)
    /\ ~IsNone(Val(slot).latitude) /\ ~IsNone(Val(slot).longitude)
ManhattanMilliDegrees ==
    Abs(Val(Val(slot).latitude) - Val(Val(scoreSearch).lat))
        + Abs(Val(Val(slot).longitude) - Val(Val(scoreSearch).lng))

\* C9: the proximity term is 0.5 * max(0, 1 - (|dlat| + |dlng|) / 0.1)
\* whenever all four coordinates are present, whatever their values, and 0
\* when one is absent.
C9_ProximityWhenPresent ==
    Scored =>
        (5 * terms.proximity) \div 10 =
            IF AllCoordinatesPresent
            THEN Max(0, 5000 - 50 * ManhattanMilliDegrees)
            ELSE 0

\* C10 as claimed: the earliness bonus is 0.2 exactly when
\* now <= start_time < now + 24h; a slot in the past gets 0.
C10_EarlyBonusNext24h ==
    Scored =>
        terms.early_bonus =
            IF clock <= Val(slot).start_time /\ Val(slot).start_time < clock + 24
            THEN 2000 ELSE 0

\* C10 as amended: the earliness bonus is 0.2 exactly when
\* start_time < now + 24h, a start_time in the past included, and 0 from
\* now + 24h on.
C10_EarlyBonusBefore24h ==
    Scored =>
        terms.early_bonus =
            IF Val(slot).start_time < clock + 24 THEN 2000 ELSE 0

\* A slot that started in the past and was given the bonus.
C10_Witness ==
    /\ Scored /\ Val(slot).start_time < clock
    /\ terms.early_bonus = 2000
    /\ terms.score >= terms.price_score + 2000

====
